---------------------------- MODULE Spec2Model ----------------------------
(***************************************************************************)
(* A model of analyze_coverage2.py: the coverage report generator.        *)
(*                                                                         *)
(* The script is straight-line: it loads a nested coverage record          *)
(* (binary -> file -> namespace -> method -> detail), flattens it into     *)
(* all_methods, aggregates by file, and prints five sections.  Each        *)
(* section of the script is one action; pc is the section about to run.    *)
(* An uncaught Python exception ends the run: pc = "crashed" and err       *)
(* names the exception.                                                    *)
(*                                                                         *)
(* Text is a sequence of one-character strings.  JSON values are tagged    *)
(* records; a JSON object keeps its items in insertion order, as a Python  *)
(* dict does.  A percentage (a Python float) is kept as the exact fraction *)
(* it rounds: for the line counts of the model distinct fractions are      *)
(* distinct floats in the same order, and equal fractions are equal floats.*)
(***************************************************************************)
EXTENDS Integers, Sequences, FiniteSets, TLC

VARIABLES
    coverage_data,    \* the loaded coverage record (line 5)
    pc,               \* the section about to run
    err,              \* the uncaught exception, "none" while there is none
    all_methods,      \* line 7: the Method Entries
    out_total,        \* line 37: the printed method count
    coverage_by_file, \* line 41: the File Aggregates, in insertion order
    file_stats,       \* line 50
    out_files,        \* line 57: the printed file ranking
    uncovered,        \* line 60-61
    out_uncovered,    \* lines 66-70: the printed uncovered methods
    partial,          \* lines 73-74
    out_partial,      \* line 80: the printed partially covered methods
    methods_with_uncovered_branches,   \* lines 83-85
    out_branches,     \* line 89: the printed branch gaps
    total_lines,      \* line 92
    total_covered,    \* line 93
    out_summary       \* lines 94-97: the printed summary

vars == <<coverage_data, pc, err, all_methods, out_total, coverage_by_file,
          file_stats, out_files, uncovered, out_uncovered, partial,
          out_partial, methods_with_uncovered_branches, out_branches,
          total_lines, total_covered, out_summary>>

-----------------------------------------------------------------------------
(* Bounds of the model.                                                    *)

MaxLines == 2       \* lines of a method detail in a one-method record
MaxHits == 2        \* largest hit count of a line or branch
MaxBranches == 2    \* branches of a method detail in a one-method record
MaxPattern == 2     \* methods of one binary in a many-method record
MaxDlls == 11       \* binaries of a many-method record
MaxSigLen == 5      \* characters of a method signature

(* The script's print limits.                                              *)

UncoveredLimit == 20
PartialLimit == 15
BranchLimit == 15

-----------------------------------------------------------------------------
(* Text: str.split, the `in` test.                                         *)

\* sub is at position i of s
MatchAt(s, sub, i) ==
    /\ i + Len(sub) - 1 <= Len(s)
    /\ \A k \in 1..Len(sub) : s[i + k - 1] = sub[k]

\* `sub in s`
Contains(s, sub) == \E i \in 1..Len(s) : MatchAt(s, sub, i)

\* s.split(sep): a left-to-right scan for non-overlapping occurrences of sep
RECURSIVE SplitFrom(_, _, _, _)
SplitFrom(s, sep, i, start) ==
    IF i > Len(s)
    THEN <<SubSeq(s, start, Len(s))>>
    ELSE IF MatchAt(s, sep, i)
         THEN <<SubSeq(s, start, i - 1)>>
              \o SplitFrom(s, sep, i + Len(sep), i + Len(sep))
         ELSE SplitFrom(s, sep, i + 1, start)

Split(s, sep) == SplitFrom(s, sep, 1, 1)

\* s.split(sep)[-1]
SplitLast(s, sep) == LET p == Split(s, sep) IN p[Len(p)]

\* s.split(sep)[0]
SplitFirst(s, sep) == Split(s, sep)[1]

\* Python's str comparison: lexicographic by code point
Code(c) ==
    CASE c = "(" -> 40
      [] c = ")" -> 41
      [] c = ":" -> 58
      [] c = "N" -> 78
      [] c = "\\" -> 92
      [] c = "a" -> 97
      [] c = "b" -> 98
      [] c = "d" -> 100
      [] c = "e" -> 101
      [] c = "m" -> 109

RECURSIVE StrLessFrom(_, _, _)
StrLessFrom(s, t, i) ==
    IF i > Len(s) THEN i <= Len(t)
    ELSE IF i > Len(t) THEN FALSE
    ELSE IF s[i] = t[i] THEN StrLessFrom(s, t, i + 1)
    ELSE Code(s[i]) < Code(t[i])

StrLess(s, t) == StrLessFrom(s, t, 1)

-----------------------------------------------------------------------------
(* JSON values as json.load builds them.                                   *)

JNull == [type |-> "null"]
JInt(n) == [type |-> "int", int |-> n]
JStr(s) == [type |-> "str", str |-> s]
JList(xs) == [type |-> "list", list |-> xs]
JDict(items) == [type |-> "dict", items |-> items]   \* items: <<key, value>>

IsDict(v) == v.type = "dict"

\* `k in d`
Has(d, k) == \E i \in 1..Len(d.items) : d.items[i][1] = k

\* d[k]
Get(d, k) == d.items[CHOOSE i \in 1..Len(d.items) : d.items[i][1] = k][2]

\* d.get(k, default)
GetOr(d, k, default) == IF Has(d, k) THEN Get(d, k) ELSE default

\* d.values()
Values(d) == [i \in 1..Len(d.items) |-> d.items[i][2]]

\* bool(v)
Truthy(v) ==
    CASE v.type = "null" -> FALSE
      [] v.type = "int" -> v.int # 0
      [] v.type = "str" -> Len(v.str) > 0
      [] v.type = "list" -> Len(v.list) > 0
      [] v.type = "dict" -> Len(v.items) > 0


-----------------------------------------------------------------------------
(* The coverage records the runs start from.                               *)
(*                                                                         *)
(* Three families: records of one method whose detail ranges over every    *)
(* shape within the bounds; records of MaxDlls (or one) binaries that each *)
(* hold the same few methods drawn from a sample of details, so that the   *)
(* lists grow past the print limits; records of one method whose signature *)
(* ranges over every text within MaxSigLen.                                *)

HitSeqs(n) == UNION {[1..k -> 0..MaxHits] : k \in 0..n}

\* the "Lines" object of a method detail: line number -> hit count
LinesOf(hs) == JDict([i \in 1..Len(hs) |-> <<ToString(i), JInt(hs[i])>>])

\* the "Branches" array of a method detail
BranchesOf(hs) == JList([i \in 1..Len(hs) |-> JDict(<<<<"Hits", JInt(hs[i])>>>>)])

Detail(lineHits, branchHits) ==
    JDict(<<<<"Lines", LinesOf(lineHits)>>, <<"Branches", BranchesOf(branchHits)>>>>)

WellFormedInfos ==
    {Detail(l, b) : l \in HitSeqs(MaxLines), b \in HitSeqs(MaxBranches)}
    \cup {JDict(<<<<"Lines", LinesOf(l)>>>>) : l \in HitSeqs(MaxLines)}

\* details that are not of the record shape
NotADict == {JNull, JInt(MaxHits), JList(<<JInt(0)>>), JStr(<<"a">>)}
NoLines == {JDict(<<>>), JDict(<<<<"Branches", BranchesOf(<<0>>)>>>>)}
LinesNotADict ==
    {JDict(<<<<"Lines", v>>, <<"Branches", BranchesOf(<<0>>)>>>>) :
        v \in {JNull, JInt(0), JList(<<>>), JStr(<<>>),
               JInt(MaxHits), JList(<<JInt(0)>>), JStr(<<"a">>)}}
LinesNotInts ==
    {JDict(<<<<"Lines", JDict(<<<<"1", JInt(1)>>, <<"2", v>>>>)>>>>) :
        v \in {JNull, JStr(<<"a">>), JList(<<>>)}}

MalformedInfos == NotADict \cup NoLines \cup LinesNotADict \cup LinesNotInts

MethodInfos == WellFormedInfos \cup MalformedInfos

\* the sample of details of the many-method records
SampleInfos ==
    { Detail(<<0>>, <<>>),
      Detail(<<0, 0>>, <<0>>),
      Detail(<<1, 0>>, <<0, 0, 1>>),
      Detail(<<0, MaxHits, 0>>, <<1>>),
      Detail(<<1>>, <<0, 1>>),
      Detail(<<>>, <<0>>),
      JList(<<JInt(0)>>),
      JDict(<<<<"Lines", JList(<<JInt(0)>>)>>>>) }

SamplePaths == { <<"d", "\\", "b">>, <<"a">> }

DllName(d) == <<"d">> \o [k \in 1..d |-> "a"]
NsName(i) == IF i % 2 = 1 THEN <<"N">> ELSE <<"N", "N">>
MethodName(i) == <<"N", ":", ":", "m">> \o [k \in 1..i |-> "a"] \o <<"(", "a", ")">>

EmptyDict == JDict(<<>>)

\* the numbers of S in ascending order
Ordered(S) ==
    [k \in 1..Cardinality(S) |-> CHOOSE i \in S : Cardinality({j \in S : j < i}) = k - 1]

\* the members of S that are the first of S with their key
Firsts(S, key) == Ordered({i \in S : \A j \in S : j < i => key[j] # key[i]})

\* A binary holding the methods of pattern: method i is MethodName(i) of
\* namespace NsName(i) of file pattern[i].path; files and namespaces are keyed
\* in the order of their first method.
MethodsOf(pattern, S) ==
    LET o == Ordered(S) IN
    JDict([k \in 1..Len(o) |-> <<MethodName(o[k]), pattern[o[k]].info>>])

NamespacesOf(pattern, S) ==
    LET firsts == Firsts(S, [i \in S |-> NsName(i)]) IN
    JDict([k \in 1..Len(firsts) |->
             <<NsName(firsts[k]),
               MethodsOf(pattern, {i \in S : NsName(i) = NsName(firsts[k])})>>])

FilesOf(pattern) ==
    LET all == 1..Len(pattern)
        firsts == Firsts(all, [i \in all |-> pattern[i].path])
    IN JDict([f \in 1..Len(firsts) |->
                <<pattern[firsts[f]].path,
                  NamespacesOf(pattern,
                               {i \in all : pattern[i].path = pattern[firsts[f]].path})>>])

\* the record of nd binaries, each holding the methods of pattern
RecordOf(pattern, nd) ==
    LET files == FilesOf(pattern) IN JDict([d \in 1..nd |-> <<DllName(d), files>>])

\* the record of one method
OneMethod(method_name, method_info) ==
    JDict(<<<<DllName(1),
              JDict(<<<<<<"a">>,
                        JDict(<<<<NsName(1),
                                  JDict(<<<<method_name, method_info>>>>)>>>>)>>>>)>>>>)

SampleLeaves == [path : SamplePaths, info : SampleInfos]
Patterns == UNION {[1..k -> SampleLeaves] : k \in 0..MaxPattern}

Signatures == UNION {[1..k -> {"a", ":", "("}] : k \in 0..MaxSigLen}

-----------------------------------------------------------------------------
(* Flatten (lines 7-37).                                                   *)

\* lines 10-13: the (file_path, ns_name, method_name, method_info) of the
\* nested loops, in iteration order
\* The loops over sequences below are evaluated by halves, which yields what
\* the left-to-right loop yields.
RECURSIVE ConcatRange(_, _, _)
ConcatRange(ss, lo, hi) ==
    IF lo > hi THEN <<>>
    ELSE IF lo = hi THEN ss[lo]
    ELSE LET mid == (lo + hi) \div 2 IN
         ConcatRange(ss, lo, mid) \o ConcatRange(ss, mid + 1, hi)

\* the sequences of ss, one after the other
Concat(ss) == ConcatRange(ss, 1, Len(ss))

Walk(cd) ==
    Concat([d \in 1..Len(cd.items) |->
      LET files == cd.items[d][2] IN
      Concat([f \in 1..Len(files.items) |->
        LET namespaces == files.items[f][2] IN
        Concat([n \in 1..Len(namespaces.items) |->
          LET methods == namespaces.items[n][2] IN
          [m \in 1..Len(methods.items) |->
             [file_path |-> files.items[f][1],
              ns_name |-> namespaces.items[n][1],
              method_name |-> methods.items[m][1],
              method_info |-> methods.items[m][2]]]])])])

RECURSIVE GCD(_, _)
GCD(a, b) == IF b = 0 THEN a ELSE GCD(b, a % b)

\* a percentage num/den in lowest terms
Frac(num, den) == LET g == GCD(num, den) IN [num |-> num \div g, den |-> den \div g]

\* lines 19 and 53: (covered / total * 100) if total > 0 else 0
Percent(covered, total) == IF total > 0 THEN Frac(covered * 100, total) ELSE Frac(0, 1)

PctLess(p, q) == p.num * q.den < q.num * p.den
PctIs(p, n) == p.num = n * p.den

\* line 17: v > 0 raises TypeError unless v is a number
Comparable(v) == v.type = "int"

\* Covered with `v >= 0` for `v > 0`
CoveredCountsAll(lines) ==
    LET vs == Values(lines) IN Cardinality({i \in 1..Len(vs) : vs[i].int >= 0})

\* line 17: sum(1 for v in lines.values() if v > 0)
Covered(lines) ==
    LET vs == Values(lines) IN Cardinality({i \in 1..Len(vs) : vs[i].int > 0})

\* MethodShort1 with split('::')[1] for split('::')[-1]
MethodShortAfterFirst(method_name) ==
    IF Contains(method_name, <<":", ":">>)
    THEN Split(method_name, <<":", ":">>)[2]
    ELSE method_name

\* line 23
MethodShort1(method_name) ==
    IF Contains(method_name, <<":", ":">>)
    THEN SplitLast(method_name, <<":", ":">>)
    ELSE method_name

\* line 24
MethodShort(method_name) ==
    LET method_short == MethodShort1(method_name) IN
    IF Contains(method_short, <<"(">>)
    THEN SplitFirst(method_short, <<"(">>)
    ELSE method_short

\* line 21
FileKey(file_path) == SplitLast(file_path, <<"\\">>)

\* Flattened without the `if lines:` of line 16
FlattenedWithoutLinesCheck(method_info) ==
    /\ IsDict(method_info)
    /\ Has(method_info, "Lines")

\* lines 14-16: the guard of the loop body
Flattened(method_info) ==
    /\ IsDict(method_info)
    /\ Has(method_info, "Lines")
    /\ Truthy(GetOr(method_info, "Lines", EmptyDict))

\* lines 17-18: the exception the body raises for this detail, "none" if none
Raises(method_info) ==
    LET lines == Get(method_info, "Lines") IN
    IF ~IsDict(lines) THEN "AttributeError"
    ELSE IF \E i \in 1..Len(lines.items) : ~Comparable(lines.items[i][2])
         THEN "TypeError"
         ELSE "none"

\* lines 17-35: the Method Entry of a detail that passed the guard
Entry(w) ==
    LET lines == Get(w.method_info, "Lines")
        covered == Covered(lines)
        total == Len(lines.items)
    IN [file |-> FileKey(w.file_path),
        namespace |-> w.ns_name,
        method |-> MethodShort(w.method_name),
        full_method |-> w.method_name,
        covered |-> covered,
        total |-> total,
        coverage |-> Percent(covered, total),
        branches |-> GetOr(w.method_info, "Branches", JList(<<>>)).list]

\* lines 14-35: the body of the loop for one method
FlattenOne(w) ==
    IF ~Flattened(w.method_info) THEN [err |-> "none", all_methods |-> <<>>]
    ELSE IF Raises(w.method_info) # "none"
         THEN [err |-> Raises(w.method_info), all_methods |-> <<>>]
         ELSE [err |-> "none", all_methods |-> <<Entry(w)>>]

\* lines 10-35 for the methods ws[lo..hi]: the entries appended until the
\* first exception, and that exception
RECURSIVE FlattenRange(_, _, _)
FlattenRange(ws, lo, hi) ==
    IF lo > hi THEN [err |-> "none", all_methods |-> <<>>]
    ELSE IF lo = hi THEN FlattenOne(ws[lo])
    ELSE LET mid == (lo + hi) \div 2
             first == FlattenRange(ws, lo, mid)
             rest == FlattenRange(ws, mid + 1, hi)
         IN IF first.err # "none" THEN first
            ELSE [err |-> rest.err,
                  all_methods |-> first.all_methods \o rest.all_methods]

\* lines 10-35
FlattenAll(ws) == FlattenRange(ws, 1, Len(ws))

-----------------------------------------------------------------------------
(* sorted(s, key=...), where less[i][j] says that the key of s[i] is less   *)
(* than the key of s[j].  Python's sort is stable, so an element is        *)
(* preceded by the elements of smaller key and by the earlier elements of  *)
(* equal key.                                                              *)

SortedBy(s, less) ==
    LET n == Len(s)
        \* before[i]: how many elements precede s[i] once sorted (as a tuple,
        \* so that it is computed once)
        before == <<>> \o [i \in 1..n |->
                            Cardinality({j \in 1..n :
                               \/ less[j][i]
                               \/ (~less[i][j] /\ j < i)})]
    IN [k \in 1..n |-> s[CHOOSE i \in 1..n : before[i] = k - 1]]

RECURSIVE FilterRange(_, _, _, _)
FilterRange(s, keep, lo, hi) ==
    IF lo > hi THEN <<>>
    ELSE IF lo = hi THEN (IF keep[lo] THEN <<s[lo]>> ELSE <<>>)
    ELSE LET mid == (lo + hi) \div 2 IN
         FilterRange(s, keep, lo, mid) \o FilterRange(s, keep, mid + 1, hi)

\* [s[i] for i in range(len(s)) if keep[i]]
Filter(s, keep) == FilterRange(s, keep, 1, Len(s))

\* s[:n]
Prefix(s, n) == SubSeq(s, 1, IF Len(s) < n THEN Len(s) ELSE n)

RECURSIVE SumRange(_, _, _)
SumRange(xs, lo, hi) ==
    IF lo > hi THEN 0
    ELSE IF lo = hi THEN xs[lo]
    ELSE LET mid == (lo + hi) \div 2 IN SumRange(xs, lo, mid) + SumRange(xs, mid + 1, hi)

\* sum(xs)
SumOf(xs) == SumRange(xs, 1, Len(xs))

-----------------------------------------------------------------------------
(* Aggregate by file and rank files (lines 39-57).                         *)

\* line 44: the keys of coverage_by_file, in the order the defaultdict got
\* them: that of the first method of each file
FileKeys(methods) ==
    LET firsts == Filter(methods,
                         [i \in 1..Len(methods) |->
                            \A j \in 1..(i - 1) : methods[j].file # methods[i].file])
    IN [a \in 1..Len(firsts) |-> firsts[a].file]

\* FileAggregate with `=` for the `+=` of lines 45-46
FileAggregateAssigns(methods, file_key) ==
    LET ms == Filter(methods, [i \in 1..Len(methods) |-> methods[i].file = file_key])
    IN [key |-> file_key,
        lines_covered |-> ms[Len(ms)].covered,
        lines_total |-> ms[Len(ms)].total,
        methods |-> ms]

\* lines 44-47: coverage_by_file[file_key] after the loop
FileAggregate(methods, file_key) ==
    LET ms == Filter(methods, [i \in 1..Len(methods) |-> methods[i].file = file_key])
    IN [key |-> file_key,
        lines_covered |-> SumOf([k \in 1..Len(ms) |-> ms[k].covered]),
        lines_total |-> SumOf([k \in 1..Len(ms) |-> ms[k].total]),
        methods |-> ms]

\* lines 43-47
Aggregate(methods) ==
    LET keys == FileKeys(methods) IN
    [a \in 1..Len(keys) |-> FileAggregate(methods, keys[a])]

\* FileOrder without the sorted() of line 51
FileOrderOfInsertion(agg) == agg

\* line 51: the order in which the files are put in file_stats
FileOrder(agg) ==
    SortedBy(agg, [i \in 1..Len(agg) |->
                    [j \in 1..Len(agg) |-> StrLess(agg[i].key, agg[j].key)]])

\* lines 52-54
FileStat(stats) ==
    [file_key |-> stats.key,
     cov |-> Percent(stats.lines_covered, stats.lines_total),
     covered |-> stats.lines_covered,
     total |-> stats.lines_total]

\* lines 50-54
FileStats(agg) == LET o == FileOrder(agg) IN [i \in 1..Len(o) |-> FileStat(o[i])]

\* line 56
RankFiles(stats) ==
    SortedBy(stats, [i \in 1..Len(stats) |->
                      [j \in 1..Len(stats) |-> PctLess(stats[i].cov, stats[j].cov)]])

-----------------------------------------------------------------------------
(* Uncovered methods (lines 59-70).                                        *)

\* line 60
IsUncovered(m) == PctIs(m.coverage, 0)

\* lines 60-61
Uncovered(methods) ==
    LET u == Filter(methods, [i \in 1..Len(methods) |-> IsUncovered(methods[i])]) IN
    SortedBy(u, [i \in 1..Len(u) |-> [j \in 1..Len(u) |-> -u[i].total < -u[j].total]])

\* line 70
UncoveredLine(method) ==
    [file |-> method.file, namespace |-> method.namespace,
     method |-> method.method, total |-> method.total]

\* PrintUncovered with `i > 20` for the `i >= 20` of line 67
PrintUncoveredOneMore(u) ==
    LET shown == Prefix(u, UncoveredLimit + 1)
        printed == [i \in 1..Len(shown) |-> UncoveredLine(shown[i])]
    IN IF Len(u) > UncoveredLimit + 1
       THEN Append(printed, [more |-> Len(u) - UncoveredLimit])
       ELSE printed

\* lines 66-70: the loop prints the methods of index i < 20 and, if it gets
\* to index 20, the remainder line, and breaks
PrintUncovered(u) ==
    LET shown == Prefix(u, UncoveredLimit)
        printed == [i \in 1..Len(shown) |-> UncoveredLine(shown[i])]
    IN IF Len(u) > UncoveredLimit
       THEN Append(printed, [more |-> Len(u) - UncoveredLimit])
       ELSE printed

-----------------------------------------------------------------------------
(* Partially covered methods (lines 72-80).                                *)

\* b.get('Hits', 0)
Hits(b) == GetOr(b, "Hits", JInt(0)).int

\* lines 78 and 83: the branches with no hit
UncoveredBranches(branches) ==
    Cardinality({i \in 1..Len(branches) : Hits(branches[i]) = 0})

\* IsPartial with `0 <=` for the `0 <` of line 73
IsPartialOrUncovered(m) == PctLess(m.coverage, Frac(100, 1))

\* line 73
IsPartial(m) == PctLess(Frac(0, 1), m.coverage) /\ PctLess(m.coverage, Frac(100, 1))

\* lines 73-74
Partial(methods) ==
    LET p == Filter(methods, [i \in 1..Len(methods) |-> IsPartial(methods[i])]) IN
    SortedBy(p, [i \in 1..Len(p) |->
                  [j \in 1..Len(p) |-> PctLess(p[i].coverage, p[j].coverage)]])

\* lines 77-80: branch_str is empty when no branch is uncovered
PartialLine(method) ==
    LET uncovered_lines == method.total - method.covered
        uncovered_branches == UncoveredBranches(method.branches)
    IN [file |-> method.file, method |-> method.method,
        coverage |-> method.coverage, covered |-> method.covered,
        total |-> method.total, missing |-> uncovered_lines,
        branch_str |-> IF uncovered_branches > 0 THEN <<uncovered_branches>> ELSE <<>>]

\* lines 76-80
PrintPartial(p) ==
    LET shown == Prefix(p, PartialLimit) IN [i \in 1..Len(shown) |-> PartialLine(shown[i])]

-----------------------------------------------------------------------------
(* Branch gap analysis (lines 82-89).                                      *)

\* HasUncoveredBranch with all() for the any() of line 84
HasOnlyUncoveredBranches(m) == \A i \in 1..Len(m.branches) : Hits(m.branches[i]) = 0

\* line 84: any(b.get('Hits', 0) == 0 for b in m.get('branches', []))
HasUncoveredBranch(m) == \E i \in 1..Len(m.branches) : Hits(m.branches[i]) = 0

\* line 83
BranchGap(m) ==
    [file |-> m.file, namespace |-> m.namespace, method |-> m.method,
     uncovered_cnt |-> UncoveredBranches(m.branches), total_cnt |-> Len(m.branches)]

\* lines 83-85
BranchGaps(methods) ==
    LET with == Filter(methods,
                       [i \in 1..Len(methods) |-> HasUncoveredBranch(methods[i])])
        g == [i \in 1..Len(with) |-> BranchGap(with[i])]
    IN SortedBy(g, [i \in 1..Len(g) |->
                     [j \in 1..Len(g) |-> -g[i].uncovered_cnt < -g[j].uncovered_cnt]])

\* lines 88-89
PrintBranches(g) ==
    LET shown == Prefix(g, BranchLimit) IN
    [i \in 1..Len(shown) |->
        [file |-> shown[i].file, method |-> shown[i].method,
         uncovered_cnt |-> shown[i].uncovered_cnt, total_cnt |-> shown[i].total_cnt]]

-----------------------------------------------------------------------------
(* The sections of the script, in order.                                   *)

\* line 5: the record json.load returns
Load ==
    \/ coverage_data = EmptyDict
    \/ \E m \in MethodInfos : coverage_data = OneMethod(MethodName(1), m)
    \/ \E p \in Patterns, nd \in {1, MaxDlls} : coverage_data = RecordOf(p, nd)
    \/ \E s \in Signatures : coverage_data = OneMethod(s, Detail(<<1, 0>>, <<0>>))

Init ==
    /\ Load
    /\ pc = "flatten"
    /\ err = "none"
    /\ all_methods = <<>>
    /\ out_total = <<>>
    /\ coverage_by_file = <<>>
    /\ file_stats = <<>>
    /\ out_files = <<>>
    /\ uncovered = <<>>
    /\ out_uncovered = <<>>
    /\ partial = <<>>
    /\ out_partial = <<>>
    /\ methods_with_uncovered_branches = <<>>
    /\ out_branches = <<>>
    /\ total_lines = 0
    /\ total_covered = 0
    /\ out_summary = <<>>

\* lines 7-37
Flatten ==
    /\ pc = "flatten"
    /\ LET r == FlattenAll(Walk(coverage_data)) IN
         /\ all_methods' = r.all_methods
         /\ err' = r.err
         /\ IF r.err = "none"
            THEN pc' = "files" /\ out_total' = <<Len(r.all_methods)>>
            ELSE pc' = "crashed" /\ UNCHANGED out_total
    /\ UNCHANGED <<coverage_data, coverage_by_file, file_stats, out_files,
                   uncovered, out_uncovered, partial, out_partial,
                   methods_with_uncovered_branches, out_branches,
                   total_lines, total_covered, out_summary>>

\* lines 39-57
ByFile ==
    /\ pc = "files"
    /\ coverage_by_file' = Aggregate(all_methods)
    /\ file_stats' = FileStats(coverage_by_file')
    /\ out_files' = RankFiles(file_stats')
    /\ pc' = "uncovered"
    /\ UNCHANGED <<coverage_data, err, all_methods, out_total,
                   uncovered, out_uncovered, partial, out_partial,
                   methods_with_uncovered_branches, out_branches,
                   total_lines, total_covered, out_summary>>

\* lines 59-70
UncoveredMethods ==
    /\ pc = "uncovered"
    /\ uncovered' = Uncovered(all_methods)
    /\ out_uncovered' = PrintUncovered(uncovered')
    /\ pc' = "partial"
    /\ UNCHANGED <<coverage_data, err, all_methods, out_total, coverage_by_file,
                   file_stats, out_files, partial, out_partial,
                   methods_with_uncovered_branches, out_branches,
                   total_lines, total_covered, out_summary>>

\* lines 72-80
PartialMethods ==
    /\ pc = "partial"
    /\ partial' = Partial(all_methods)
    /\ out_partial' = PrintPartial(partial')
    /\ pc' = "branches"
    /\ UNCHANGED <<coverage_data, err, all_methods, out_total, coverage_by_file,
                   file_stats, out_files, uncovered, out_uncovered,
                   methods_with_uncovered_branches, out_branches,
                   total_lines, total_covered, out_summary>>

\* lines 82-89
BranchAnalysis ==
    /\ pc = "branches"
    /\ methods_with_uncovered_branches' = BranchGaps(all_methods)
    /\ out_branches' = PrintBranches(methods_with_uncovered_branches')
    /\ pc' = "summary"
    /\ UNCHANGED <<coverage_data, err, all_methods, out_total, coverage_by_file,
                   file_stats, out_files, uncovered, out_uncovered, partial,
                   out_partial, total_lines, total_covered, out_summary>>

\* line 96
IsFull(m) == PctIs(m.coverage, 100)

\* lines 91-97: line 94 divides by total_lines
Summary ==
    /\ pc = "summary"
    /\ total_lines' = SumOf([k \in 1..Len(all_methods) |-> all_methods[k].total])
    /\ total_covered' = SumOf([k \in 1..Len(all_methods) |-> all_methods[k].covered])
    /\ IF total_lines' = 0
       THEN /\ err' = "ZeroDivisionError"
            /\ pc' = "crashed"
            /\ UNCHANGED out_summary
       ELSE /\ out_summary' = <<[overall |-> Frac(total_covered' * 100, total_lines'),
                                 covered |-> total_covered',
                                 total |-> total_lines',
                                 at_zero |-> Len(uncovered),
                                 at_full |-> Cardinality({k \in 1..Len(all_methods) :
                                                          IsFull(all_methods[k])}),
                                 between |-> Len(partial)]>>
            /\ pc' = "done"
            /\ UNCHANGED err
    /\ UNCHANGED <<coverage_data, all_methods, out_total, coverage_by_file,
                   file_stats, out_files, uncovered, out_uncovered, partial,
                   out_partial, methods_with_uncovered_branches, out_branches>>

Next ==
    \/ Flatten
    \/ ByFile
    \/ UncoveredMethods
    \/ PartialMethods
    \/ BranchAnalysis
    \/ Summary

Spec == Init /\ [][Next]_vars

-----------------------------------------------------------------------------
(* What the claims speak of, read off the coverage record itself.          *)

\* Flatten ran to its end
FlattenDone == pc # "flatten" /\ err \notin {"AttributeError", "TypeError"}

\* every section up to the Summary ran
Reported == pc = "done" \/ (pc = "crashed" /\ err = "ZeroDivisionError")

\* a detail of the record shape: a mapping with a line mapping of integers
WellFormed(info) ==
    /\ info.type = "dict"
    /\ \E i \in 1..Len(info.items) : info.items[i][1] = "Lines"
    /\ LET lines == info.items[CHOOSE i \in 1..Len(info.items) :
                                 info.items[i][1] = "Lines"][2]
       IN /\ lines.type = "dict"
          /\ \A i \in 1..Len(lines.items) : lines.items[i][2].type = "int"

\* the hit counts of the lines of a well-formed detail
LineHits(info) ==
    LET lines == info.items[CHOOSE i \in 1..Len(info.items) :
                              info.items[i][1] = "Lines"][2]
    IN [i \in 1..Len(lines.items) |-> lines.items[i][2].int]

HasLines(w) == WellFormed(w.method_info) /\ Len(LineHits(w.method_info)) > 0
HasNoLines(w) == WellFormed(w.method_info) /\ Len(LineHits(w.method_info)) = 0

\* the elements of s that pass Test, in the order of s
RECURSIVE WhereRange(_, _, _, _)
WhereRange(s, Test(_), lo, hi) ==
    IF lo > hi THEN <<>>
    ELSE IF lo = hi THEN (IF Test(s[lo]) THEN <<s[lo]>> ELSE <<>>)
    ELSE WhereRange(s, Test, lo, (lo + hi) \div 2)
         \o WhereRange(s, Test, (lo + hi) \div 2 + 1, hi)

Where(s, Test(_)) == WhereRange(s, Test, 1, Len(s))

\* the methods of the record, and those with a non-empty line mapping
RecordMethods == Walk(coverage_data)
MethodsWithLines == Where(RecordMethods, HasLines)

\* the sum of f[1..n]
RECURSIVE TotalRange(_, _, _)
TotalRange(f, lo, hi) ==
    IF lo > hi THEN 0
    ELSE IF lo = hi THEN f[lo]
    ELSE TotalRange(f, lo, (lo + hi) \div 2) + TotalRange(f, (lo + hi) \div 2 + 1, hi)

Total(f, n) == TotalRange(f, 1, n)

\* how many times x occurs in s
Count(s, x) == Cardinality({i \in 1..Len(s) : s[i] = x})

\* s and t hold the same elements, each as many times
SameElements(s, t) ==
    /\ Len(s) = Len(t)
    /\ \A i \in 1..Len(s) : Count(s, s[i]) = Count(t, s[i])

\* C1: Flatten produces exactly one Method Entry for each method with a
\* non-empty line mapping, in the order of the walk, and none for a method
\* with an empty one: the printed method count is the number of methods with
\* lines, no list (file aggregates, ranking, uncovered, partial, branch gaps)
\* holds anything but those entries, and the file aggregates and the summary
\* total exactly the lines of the methods with lines.
C1_OneEntryPerMethodWithLines ==
    Reported =>
      LET all == RecordMethods
          ms == Where(all, HasLines)
          n == Len(ms)
          lines == Total([k \in 1..n |-> Len(LineHits(ms[k].method_info))], n)
          skipped == Where(all, HasNoLines)
          listed == uncovered \o partial
                    \o Concat([a \in 1..Len(coverage_by_file) |->
                                 coverage_by_file[a].methods])
      IN /\ Len(all_methods) = n
         /\ \A k \in 1..n :
              /\ all_methods[k].full_method = ms[k].method_name
              /\ all_methods[k].namespace = ms[k].ns_name
              /\ all_methods[k].total = Len(LineHits(ms[k].method_info))
         /\ out_total = <<n>>
         /\ \A i \in 1..Len(skipped) :
              /\ \A k \in 1..Len(listed) :
                   listed[k].full_method # skipped[i].method_name
              /\ \A k \in 1..Len(methods_with_uncovered_branches) :
                   methods_with_uncovered_branches[k].method
                     # MethodShort(skipped[i].method_name)
         /\ Total([a \in 1..Len(coverage_by_file) |->
                     coverage_by_file[a].lines_total], Len(coverage_by_file)) = lines
         /\ Total([a \in 1..Len(file_stats) |-> file_stats[a].total],
                  Len(file_stats)) = lines
         /\ total_lines = lines

\* a method with an empty line mapping and an uncovered branch was skipped
\* while others were flattened
C1_Witness ==
    /\ Reported
    /\ Len(all_methods) > 0
    /\ \E i \in 1..Len(RecordMethods) :
         /\ HasNoLines(RecordMethods[i])
         /\ Has(RecordMethods[i].method_info, "Branches")
         /\ Len(Get(RecordMethods[i].method_info, "Branches").list) > 0

\* C2: every Method Entry has covered = the number of its lines hit more than
\* 0 times and total = the number of its lines, with 0 <= covered <= total
\* and 0 <= coverage <= 100 and coverage = 100 * covered / total; every File
\* Aggregate has 0 <= lines_covered <= lines_total, and its percentage is
\* within 0..100 and is 0 when its total is 0.
C2_CoveredAtMostTotal ==
    Reported =>
      LET ms == MethodsWithLines IN
      /\ Len(all_methods) = Len(ms)
      /\ \A k \in 1..Len(all_methods) :
           LET m == all_methods[k]
               hits == LineHits(ms[k].method_info)
           IN /\ m.covered = Cardinality({i \in 1..Len(hits) : hits[i] > 0})
              /\ m.total = Len(hits)
              /\ 0 <= m.covered /\ m.covered <= m.total
              /\ 0 <= m.coverage.num /\ m.coverage.den > 0
              /\ m.coverage.num <= 100 * m.coverage.den
              /\ m.total > 0 => m.coverage.num * m.total = 100 * m.covered * m.coverage.den
              /\ m.total = 0 => m.coverage.num = 0
      /\ \A a \in 1..Len(coverage_by_file) :
           /\ 0 <= coverage_by_file[a].lines_covered
           /\ coverage_by_file[a].lines_covered <= coverage_by_file[a].lines_total
      /\ \A a \in 1..Len(file_stats) :
           LET f == file_stats[a] IN
           /\ f.covered <= f.total
           /\ 0 <= f.cov.num /\ f.cov.den > 0 /\ f.cov.num <= 100 * f.cov.den
           /\ f.total > 0 => f.cov.num * f.total = 100 * f.covered * f.cov.den
           /\ f.total = 0 => f.cov.num = 0

\* a partly covered method with a line hit more than once, in a file of
\* several methods
C2_Witness ==
    /\ Reported
    /\ \E k \in 1..Len(all_methods) :
         /\ 0 < all_methods[k].covered
         /\ all_methods[k].covered < all_methods[k].total
    /\ LET ms == MethodsWithLines IN
       \E k \in 1..Len(ms) :
          \E i \in 1..Len(LineHits(ms[k].method_info)) :
             LineHits(ms[k].method_info)[i] > 1
    /\ \E a \in 1..Len(coverage_by_file) : Len(coverage_by_file[a].methods) > 1

\* C3: for every record that loads, the per-method, per-file and overall
\* percentages are computed without a division error and the run reaches the
\* end of the Summary.
C3_NoDivisionError == err # "ZeroDivisionError"

\* the position of file_key among the File Aggregates: the order in which the
\* files got their first Method Entry
InsertionIndex(file_key) ==
    CHOOSE a \in 1..Len(coverage_by_file) : coverage_by_file[a].key = file_key

\* the ranking prints each File Aggregate once
RankingIsOfAggregates ==
    /\ Len(out_files) = Len(coverage_by_file)
    /\ \A a \in 1..Len(coverage_by_file) :
         \E i \in 1..Len(out_files) :
            /\ out_files[i].file_key = coverage_by_file[a].key
            /\ out_files[i].covered = coverage_by_file[a].lines_covered
            /\ out_files[i].total = coverage_by_file[a].lines_total
            /\ out_files[i].cov.num * out_files[i].total
                 = 100 * out_files[i].covered * out_files[i].cov.den

\* C4 as stated: the ranking is in ascending order of coverage percentage,
\* and files of equal percentage are printed in the order in which their
\* first Method Entry was flattened.
C4_TiesInInsertionOrder ==
    Reported =>
      /\ RankingIsOfAggregates
      /\ \A i, j \in 1..Len(out_files) :
           i < j =>
             /\ ~PctLess(out_files[j].cov, out_files[i].cov)
             /\ out_files[i].cov = out_files[j].cov =>
                  InsertionIndex(out_files[i].file_key)
                    < InsertionIndex(out_files[j].file_key)

\* C4 amended: the ranking is in ascending order of coverage percentage, and
\* files of equal percentage are printed in ascending order of file name.
C4_TiesInNameOrder ==
    Reported =>
      /\ RankingIsOfAggregates
      /\ \A i, j \in 1..Len(out_files) :
           i < j =>
             /\ ~PctLess(out_files[j].cov, out_files[i].cov)
             /\ out_files[i].cov = out_files[j].cov =>
                  StrLess(out_files[i].file_key, out_files[j].file_key)

\* two files of equal percentage whose first entries were flattened in the
\* opposite of their name order
C4_Witness ==
    /\ Reported
    /\ \E i, j \in 1..Len(out_files) :
         /\ i < j
         /\ out_files[i].cov = out_files[j].cov
         /\ InsertionIndex(out_files[i].file_key) > InsertionIndex(out_files[j].file_key)

\* C5: a method detail that is not of the record shape is skipped during
\* Flatten: no error is raised, it gets no Method Entry, and every
\* well-formed method with lines is flattened.
C5_MalformedSkipped ==
    pc # "flatten" =>
      LET ms == MethodsWithLines IN
      /\ err \notin {"AttributeError", "TypeError"}
      /\ Len(all_methods) = Len(ms)
      /\ \A k \in 1..Len(all_methods) : all_methods[k].full_method = ms[k].method_name

\* C6: the uncovered list holds exactly the Method Entries of coverage 0, in
\* descending order of total; the first UncoveredLimit are printed, followed
\* by a remainder line of n - UncoveredLimit exactly when there are
\* n > UncoveredLimit of them.
C6_UncoveredList ==
    Reported =>
      LET n == Len(uncovered)
          shown == IF n > UncoveredLimit THEN UncoveredLimit ELSE n
      IN /\ SameElements(uncovered, Where(all_methods, LAMBDA m : m.covered = 0))
         /\ \A i \in 1..n : uncovered[i].coverage.num = 0
         /\ \A i, j \in 1..n : i < j => uncovered[i].total >= uncovered[j].total
         /\ Len(out_uncovered) = IF n > UncoveredLimit THEN UncoveredLimit + 1 ELSE n
         /\ \A i \in 1..shown :
              /\ DOMAIN out_uncovered[i] = {"file", "namespace", "method", "total"}
              /\ out_uncovered[i].file = uncovered[i].file
              /\ out_uncovered[i].namespace = uncovered[i].namespace
              /\ out_uncovered[i].method = uncovered[i].method
              /\ out_uncovered[i].total = uncovered[i].total
         /\ n > UncoveredLimit =>
              out_uncovered[UncoveredLimit + 1] = [more |-> n - UncoveredLimit]

\* more uncovered methods than are printed, of different sizes
C6_Witness ==
    /\ Reported
    /\ Len(uncovered) > UncoveredLimit
    /\ \E i, j \in 1..Len(uncovered) : uncovered[i].total # uncovered[j].total

\* C7: the File Aggregates' lines_total and lines_covered sum to the Method
\* Entries' total and covered; every Method Entry is in the method list of
\* exactly one File Aggregate, that of its file; the Summary's covered and
\* total are the same sums.
C7_LineCountsConserved ==
    Reported =>
      LET n == Len(all_methods)
          f == Len(coverage_by_file)
          sum_total == Total([k \in 1..n |-> all_methods[k].total], n)
          sum_covered == Total([k \in 1..n |-> all_methods[k].covered], n)
      IN /\ Total([a \in 1..f |-> coverage_by_file[a].lines_total], f) = sum_total
         /\ Total([a \in 1..f |-> coverage_by_file[a].lines_covered], f) = sum_covered
         /\ \A a, b \in 1..f :
              coverage_by_file[a].key = coverage_by_file[b].key => a = b
         /\ \A a \in 1..f :
              coverage_by_file[a].methods
                = Where(all_methods, LAMBDA m : m.file = coverage_by_file[a].key)
         /\ \A k \in 1..n : \E a \in 1..f : coverage_by_file[a].key = all_methods[k].file
         /\ total_lines = sum_total
         /\ total_covered = sum_covered
         /\ pc = "done" =>
              /\ out_summary[1].total = sum_total
              /\ out_summary[1].covered = sum_covered

\* a finished report over several files, one of them with several methods
C7_Witness ==
    /\ pc = "done"
    /\ Len(coverage_by_file) > 1
    /\ \E a \in 1..Len(coverage_by_file) : Len(coverage_by_file[a].methods) > 1
    /\ total_covered > 0
    /\ total_covered < total_lines

\* the branches of a Method Entry with hit count 0
ZeroHitBranches(m) ==
    Cardinality({i \in 1..Len(m.branches) :
       \E h \in 1..Len(m.branches[i].items) :
          m.branches[i].items[h] = <<"Hits", JInt(0)>>})

\* C8: the branch gap analysis lists exactly the Method Entries with at
\* least one branch of hit count 0, in descending order of their number of
\* such branches; the first BranchLimit are printed, each with its number of
\* uncovered branches and its number of branches.
C8_BranchGaps ==
    Reported =>
      LET g == methods_with_uncovered_branches
          with == Where(all_methods, LAMBDA m : ZeroHitBranches(m) > 0)
          want == [k \in 1..Len(with) |->
                     [file |-> with[k].file, namespace |-> with[k].namespace,
                      method |-> with[k].method,
                      uncovered_cnt |-> ZeroHitBranches(with[k]),
                      total_cnt |-> Len(with[k].branches)]]
      IN /\ SameElements(g, want)
         /\ \A i, j \in 1..Len(g) : i < j => g[i].uncovered_cnt >= g[j].uncovered_cnt
         /\ Len(out_branches) = IF Len(g) > BranchLimit THEN BranchLimit ELSE Len(g)
         /\ \A i \in 1..Len(out_branches) :
              out_branches[i] = [file |-> g[i].file, method |-> g[i].method,
                                 uncovered_cnt |-> g[i].uncovered_cnt,
                                 total_cnt |-> g[i].total_cnt]

\* more methods with uncovered branches than are printed, with different
\* numbers of them, one with a covered branch too
C8_Witness ==
    /\ Reported
    /\ Len(methods_with_uncovered_branches) > BranchLimit
    /\ \E i, j \in 1..Len(methods_with_uncovered_branches) :
         /\ methods_with_uncovered_branches[i].uncovered_cnt
              # methods_with_uncovered_branches[j].uncovered_cnt
         /\ methods_with_uncovered_branches[i].uncovered_cnt
              < methods_with_uncovered_branches[i].total_cnt

\* C9: the partially covered list holds exactly the Method Entries with
\* 0 < covered < total, in ascending order of coverage percentage; the first
\* PartialLimit are printed, each with total - covered missing lines and
\* with its number of uncovered branches exactly when that number is not 0.
C9_PartialList ==
    Reported =>
      LET n == Len(partial) IN
      /\ SameElements(partial,
                      Where(all_methods,
                            LAMBDA m : 0 < m.covered /\ m.covered < m.total))
      /\ \A i, j \in 1..n :
           i < j => partial[i].covered * partial[j].total
                      <= partial[j].covered * partial[i].total
      /\ Len(out_partial) = IF n > PartialLimit THEN PartialLimit ELSE n
      /\ \A i \in 1..Len(out_partial) :
           /\ out_partial[i].file = partial[i].file
           /\ out_partial[i].method = partial[i].method
           /\ out_partial[i].covered = partial[i].covered
           /\ out_partial[i].total = partial[i].total
           /\ out_partial[i].missing = partial[i].total - partial[i].covered
           /\ out_partial[i].branch_str =
                IF ZeroHitBranches(partial[i]) # 0
                THEN <<ZeroHitBranches(partial[i])>>
                ELSE <<>>

\* more partially covered methods than are printed, of different
\* percentages, one printed with and one without uncovered branches
C9_Witness ==
    /\ Reported
    /\ Len(partial) > PartialLimit
    /\ \E i, j \in 1..Len(partial) : partial[i].coverage # partial[j].coverage
    /\ \E i, j \in 1..Len(out_partial) :
         out_partial[i].branch_str = <<>> /\ out_partial[j].branch_str # <<>>

\* the positions of s where a "::" token of a left-to-right scan starts: a
\* "::" preceded by an even number of consecutive ":"
ColonsBefore(s, i) ==
    Cardinality({k \in 1..(i - 1) : \A j \in k..(i - 1) : s[j] = ":"})

SeparatorTokens(s) ==
    {i \in 1..(Len(s) - 1) :
        s[i] = ":" /\ s[i + 1] = ":" /\ ColonsBefore(s, i) % 2 = 0}

\* the places where "::" occurs in s
SeparatorPlaces(s) == {i \in 1..(Len(s) - 1) : s[i] = ":" /\ s[i + 1] = ":"}

Last(S) == CHOOSE i \in S : \A j \in S : j <= i

\* t up to its first "(", all of t when it has none
UpToParen(t) ==
    LET at == {i \in 1..Len(t) : t[i] = "("} IN
    IF at = {} THEN t ELSE SubSeq(t, 1, (CHOOSE i \in at : \A j \in at : i <= j) - 1)

\* C10 as stated: the short name is the text after the last "::" of the
\* signature, up to the first "(" of that text; when either token is absent
\* from the signature, the short name is the full signature.
C10_FullSignatureWithoutEitherToken ==
    FlattenDone =>
      \A k \in 1..Len(all_methods) :
         LET s == all_methods[k].full_method IN
         all_methods[k].method =
           IF SeparatorPlaces(s) = {} \/ \A i \in 1..Len(s) : s[i] # "("
           THEN s
           ELSE UpToParen(SubSeq(s, Last(SeparatorPlaces(s)) + 2, Len(s)))

\* C10 amended: the short name is the text after the last "::" token of the
\* signature (the tokens of a left-to-right scan, which do not overlap), or
\* the whole signature when it has no "::", in either case up to the first
\* "(" of that text when it has one.
C10_ShortName ==
    FlattenDone =>
      \A k \in 1..Len(all_methods) :
         LET s == all_methods[k].full_method IN
         all_methods[k].method =
           UpToParen(IF SeparatorTokens(s) = {}
                     THEN s
                     ELSE SubSeq(s, Last(SeparatorTokens(s)) + 2, Len(s)))

\* a signature with three ":" in a row before its name and parameter list
C10_Witness ==
    /\ FlattenDone
    /\ \E k \in 1..Len(all_methods) :
         LET s == all_methods[k].full_method IN
         /\ \E i \in 1..Len(s) : MatchAt(s, <<":", ":", ":", "a", "(">>, i)
         /\ all_methods[k].method = <<":", "a">>

=============================================================================
